---------------------------- MODULE Spec2Model ----------------------------
(* brewdiff: the installed Homebrew state, the intent of a nix-darwin       *)
(* profile, their category-wise diff and the text reports of that diff.     *)
(*                                                                          *)
(* A Rust String is modelled as a sequence of one-character strings, so     *)
(* that splitting, joining, prefix tests and the byte-wise order of         *)
(* Vec<String>::sort are computed and not assumed.                          *)
EXTENDS Integers, Sequences, FiniteSets, TLC

VARIABLES
    pc,      \* position of the running call or pipeline
    env,     \* the outside world: executables, processes, files, the sink
    cur,     \* HomebrewState (current_state)
    intent,  \* HomebrewIntent (nix_intent)
    diff,    \* HomebrewDiffData (diff_data)
    out,     \* the lines written to the writer so far
    ret,     \* what the call handed back to its caller
    log      \* the external operations performed, in order

vars == <<pc, env, cur, intent, diff, out, ret, log>>

-----------------------------------------------------------------------------
(* Text.                                                                    *)

\* The characters the model uses, in ascending byte order.
Ascii ==
    << " ", "\"", "#", "'", "(", ")", ",", "-", "/", "0", "1", "2", "3", ":",
       "A", "B", "C", "D", "E", "F", "H", "M", "O", "R", "S", "T", "V", "W",
       "[", "]", "a", "b", "c", "d", "e", "f", "i", "k", "l", "m", "n", "o",
       "p", "r", "s", "t", "u", "w", "x" >>

\* The byte value of a character, up to an order-preserving renumbering.
Byte(c) == CHOOSE i \in 1..Len(Ascii) : Ascii[i] = c

\* a < b in the order of str::cmp: byte-wise lexicographic, a proper prefix
\* before the longer string.
RECURSIVE StrLess(_, _)
StrLess(a, b) ==
    IF b = <<>> THEN FALSE
    ELSE IF a = <<>> THEN TRUE
    ELSE IF Head(a) = Head(b) THEN StrLess(Tail(a), Tail(b))
    ELSE Byte(Head(a)) < Byte(Head(b))

StrLessEq(a, b) == a = b \/ StrLess(a, b)

\* One insertion step of the sort: x goes after every element not above it
\* (the sort is stable).
RECURSIVE InsertSorted(_, _)
InsertSorted(x, s) ==
    IF s = <<>> THEN <<x>>
    ELSE IF StrLess(x, Head(s)) THEN <<x>> \o s
    ELSE <<Head(s)>> \o InsertSorted(x, Tail(s))

RECURSIVE SortFrom(_, _)
SortFrom(s, acc) ==
    IF s = <<>> THEN acc ELSE SortFrom(Tail(s), InsertSorted(Head(s), acc))

SortNoop(v) == v

\* Vec<String>::sort
Sort(v) == SortFrom(v, <<>>)

Range(s) == {s[i] : i \in 1..Len(s)}

\* Every order in which a HashSet / HashMap may hand out its elements.
RECURSIVE Orders(_)
Orders(S) ==
    IF S = {} THEN {<<>>}
    ELSE UNION {{<<x>> \o o : o \in Orders(S \ {x})} : x \in S}

RECURSIVE Filter(_, _)
Filter(s, Keep) ==
    IF s = <<>> THEN <<>>
    ELSE IF Head(s) \in Keep THEN <<Head(s)>> \o Filter(Tail(s), Keep)
    ELSE Filter(Tail(s), Keep)

-----------------------------------------------------------------------------
(* diff.rs                                                                  *)

EmptyDiff == [added |-> <<>>, removed |-> <<>>]

\* #[derive(Default)] HomebrewDiffData
DefaultDiffData ==
    [brews |-> EmptyDiff, casks |-> EmptyDiff, taps |-> EmptyDiff,
     mas_apps |-> EmptyDiff]

\* #[derive(Default)] HomebrewState: the maps are functions from names to
\* versions, the sets are sets.
DefaultState ==
    [installed_brews |-> <<>>, installed_casks |-> <<>>,
     installed_taps |-> {}, installed_mas_apps |-> {}]

\* #[derive(Default)] HomebrewIntent
DefaultIntent == [brews |-> {}, casks |-> {}, taps |-> {}, mas_apps |-> {}]

PackageDiffSwapped(installed, intended, ordIntended, ordInstalled) ==
    [added   |-> Sort(Filter(ordInstalled, DOMAIN installed \ intended)),
     removed |-> Sort(Filter(ordIntended, intended \ DOMAIN installed))]

\* compute_package_diff: the two loops visit `intended` and
\* `installed.keys()` in the orders the hash containers give.
compute_package_diff(installed, intended, ordIntended, ordInstalled) ==
    LET added   == Filter(ordIntended,
                          {p \in intended : p \notin DOMAIN installed})
        removed == Filter(ordInstalled,
                          {p \in DOMAIN installed : p \notin intended})
    IN  [added |-> Sort(added), removed |-> Sort(removed)]

\* compute_set_diff: difference() iterates its receiver.
compute_set_diff(current, intended, ordIntended, ordCurrent) ==
    LET added   == Filter(ordIntended, intended \ current)
        removed == Filter(ordCurrent, current \ intended)
    IN  [added |-> Sort(added), removed |-> Sort(removed)]

\* The iteration orders one run of compute may meet.
ComputeOrders(st, it) ==
    [ib : Orders(it.brews), sb : Orders(DOMAIN st.installed_brews),
     ic : Orders(it.casks), sc : Orders(DOMAIN st.installed_casks),
     itp : Orders(it.taps), stp : Orders(st.installed_taps),
     im : Orders(it.mas_apps), sm : Orders(st.installed_mas_apps)]

\* HomebrewDiffData::compute
compute(st, it, o) ==
    [brews    |-> compute_package_diff(st.installed_brews, it.brews, o.ib, o.sb),
     casks    |-> compute_package_diff(st.installed_casks, it.casks, o.ic, o.sc),
     taps     |-> compute_set_diff(st.installed_taps, it.taps, o.itp, o.stp),
     mas_apps |-> compute_set_diff(st.installed_mas_apps, it.mas_apps,
                                   o.im, o.sm)]

HasChangesIgnoresMas(d) ==
    \/ d.brews.added # <<>> \/ d.brews.removed # <<>>
    \/ d.casks.added # <<>> \/ d.casks.removed # <<>>
    \/ d.taps.added # <<>>  \/ d.taps.removed # <<>>

\* HomebrewDiffData::has_changes
has_changes(d) ==
    \/ d.brews.added # <<>>
    \/ d.brews.removed # <<>>
    \/ d.casks.added # <<>>
    \/ d.casks.removed # <<>>
    \/ d.taps.added # <<>>
    \/ d.taps.removed # <<>>
    \/ d.mas_apps.added # <<>>
    \/ d.mas_apps.removed # <<>>

\* HomebrewDiffData::total_changes
total_changes(d) ==
    Len(d.brews.added) + Len(d.brews.removed)
    + Len(d.casks.added) + Len(d.casks.removed)
    + Len(d.taps.added) + Len(d.taps.removed)
    + Len(d.mas_apps.added) + Len(d.mas_apps.removed)

-----------------------------------------------------------------------------
(* Results and the writer.                                                  *)

NoResult == [kind |-> "none", val |-> <<>>]
Ok(v) == [kind |-> "Ok", val |-> v]
Err(e, detail) == [kind |-> "Err", val |-> [error |-> e, detail |-> detail]]
\* A panic unwinds through the caller: no value is returned.
Panicked(msg) == [kind |-> "Panic", val |-> msg]

\* A writer that accepts every line (a Vec<u8>) has limit -1; a writer with
\* limit k >= 0 fails the write that would make its (k+1)-th line.
Accepts(limit, written) == limit = -1 \/ Len(written) < limit

\* The running state of a write_* function: the writer's content, the
\* local `lines_written`, and whether a `?` has already returned an error.
Writer(written) == [out |-> written, n |-> 0, failed |-> FALSE]

\* writeln!(writer, ...)?
writeln(w, line, limit) ==
    IF w.failed THEN w
    ELSE IF Accepts(limit, w.out) THEN [w EXCEPT !.out = Append(@, line)]
    ELSE [w EXCEPT !.failed = TRUE]

\* lines_written += k
count(w, k) == IF w.failed THEN w ELSE [w EXCEPT !.n = @ + k]

\* An SGR escape sequence, as owo_colors emits around styled text.
SGR == "\\x1b[m"

\* "A".green().bold() / "R".red().bold()
bold_colored(text) == <<SGR, SGR>> \o text \o <<SGR, SGR>>

\* strip_ansi_codes of the tests: what a reader of the plain text sees.
RECURSIVE strip_ansi_codes(_)
strip_ansi_codes(s) ==
    IF s = <<>> THEN <<>>
    ELSE IF Head(s) = SGR THEN strip_ansi_codes(Tail(s))
    ELSE <<Head(s)>> \o strip_ansi_codes(Tail(s))

StripLines(lines) == [i \in 1..Len(lines) |-> strip_ansi_codes(lines[i])]

-----------------------------------------------------------------------------
(* display.rs                                                               *)

TxtADDED    == <<"A", "D", "D", "E", "D">>
TxtREMOVED  == <<"R", "E", "M", "O", "V", "E", "D">>
TxtTaps     == <<"T", "a", "p", "s">>
TxtFormulae == <<"F", "o", "r", "m", "u", "l", "a", "e">>
TxtCasks    == <<"C", "a", "s", "k", "s">>
TxtAppStore == <<"A", "p", "p", " ", "S", "t", "o", "r", "e">>
TxtBlank    == <<>>

\* format "[{}] {}" with a styled one-letter marker
marked_line(letter, name) == <<"[">> \o bold_colored(<<letter>>) \o <<"]", " ">> \o name

\* for x in &list { writeln!(writer, "[{}] {}", marker, x)?; lines_written += 1; }
RECURSIVE write_entries(_, _, _, _)
write_entries(w, list, letter, limit) ==
    IF list = <<>> THEN w
    ELSE write_entries(count(writeln(w, marked_line(letter, Head(list)), limit), 1),
                       Tail(list), letter, limit)

\* if !list.is_empty() { writeln!(writer, header)?; lines_written += 1; for ... }
write_category(w, header, list, letter, limit) ==
    IF list # <<>>
    THEN write_entries(count(writeln(w, header, limit), 1), list, letter, limit)
    ELSE w

any_added(d) ==
    \/ d.brews.added # <<>> \/ d.casks.added # <<>>
    \/ d.taps.added # <<>>  \/ d.mas_apps.added # <<>>

any_removed(d) ==
    \/ d.brews.removed # <<>> \/ d.casks.removed # <<>>
    \/ d.taps.removed # <<>>  \/ d.mas_apps.removed # <<>>

SeparatorNotCounted(w, d, limit) ==
    IF any_removed(d) THEN writeln(w, TxtBlank, limit) ELSE w

\* the separator between the two blocks
write_separator(w, d, limit) ==
    IF any_removed(d) THEN count(writeln(w, TxtBlank, limit), 1) ELSE w

AddedSectionCasksFirst(w, d, limit) ==
    IF any_added(d)
    THEN LET w1 == count(writeln(w, TxtADDED, limit), 1)
             w2 == write_category(w1, TxtCasks, d.casks.added, "A", limit)
             w3 == write_category(w2, TxtTaps, d.taps.added, "A", limit)
             w4 == write_category(w3, TxtFormulae, d.brews.added, "A", limit)
             w5 == write_category(w4, TxtAppStore, d.mas_apps.added, "A", limit)
         IN  write_separator(w5, d, limit)
    ELSE w

\* write_diff, the "Added section"
write_added_section(w, d, limit) ==
    IF any_added(d)
    THEN LET w1 == count(writeln(w, TxtADDED, limit), 1)
             w2 == write_category(w1, TxtTaps, d.taps.added, "A", limit)
             w3 == write_category(w2, TxtFormulae, d.brews.added, "A", limit)
             w4 == write_category(w3, TxtCasks, d.casks.added, "A", limit)
             w5 == write_category(w4, TxtAppStore, d.mas_apps.added, "A", limit)
         IN  write_separator(w5, d, limit)
    ELSE w

\* write_diff, the "Removed section"
write_removed_section(w, d, limit) ==
    IF any_removed(d)
    THEN LET w1 == count(writeln(w, TxtREMOVED, limit), 1)
             w2 == write_category(w1, TxtTaps, d.taps.removed, "R", limit)
             w3 == write_category(w2, TxtFormulae, d.brews.removed, "R", limit)
             w4 == write_category(w3, TxtCasks, d.casks.removed, "R", limit)
         IN  write_category(w4, TxtAppStore, d.mas_apps.removed, "R", limit)
    ELSE w

WriteDiffAlwaysHeader(w, d, limit) ==
    write_removed_section(
        write_added_section(count(writeln(w, TxtADDED, limit), 1), d, limit),
        d, limit)

\* write_diff up to its return: the writer state it ends in
write_diff_run(w, d, limit) ==
    IF ~has_changes(d) THEN w
    ELSE write_removed_section(write_added_section(w, d, limit), d, limit)

\* What a write_* function returns from its final writer state.
returned(w) == IF w.failed THEN Err("Io", <<>>) ELSE Ok(w.n)

\* write_diff
write_diff(written, d, limit) ==
    LET w == write_diff_run(Writer(written), d, limit)
    IN  [out |-> w.out, ret |-> returned(w)]

\* write_diff_with_header
write_diff_with_header(written, current_profile, new_profile, d, limit) ==
    LET w0 == Writer(written)
        w1 == writeln(w0, <<"<", "<", "<", " ">> \o current_profile, limit)
        w2 == writeln(w1, <<">", ">", ">", " ">> \o new_profile, limit)
        w3 == count(writeln(w2, TxtBlank, limit), 3)
        wi == write_diff_run([w3 EXCEPT !.n = 0], d, limit)
        \* lines_written += inner_lines, unless write_diff(..)? returned early
        w4 == IF wi.failed THEN wi ELSE [wi EXCEPT !.n = w3.n + wi.n]
    IN  [out |-> w4.out, ret |-> returned(w4)]

-----------------------------------------------------------------------------
(* Bounded inputs of the diff engine and of the renderer.                   *)

MaxItems == 3
MaxTotal == 4

\* Package, tap and app names; "a" is a proper prefix of "ab".
Names == {<<"a">>, <<"a", "b">>, <<"b">>}
Versions == {<<"1">>, <<"u", "n", "k", "n", "o", "w", "n">>}
Categories == {"brews", "casks", "taps", "mas_apps"}

\* One installed or intended entry.
Items ==
    [side : {"state"}, cat : {"brews", "casks"}, name : Names, version : Versions]
    \cup [side : {"state"}, cat : {"taps", "mas_apps"}, name : Names, version : {<<>>}]
    \cup [side : {"intent"}, cat : Categories, name : Names, version : {<<>>}]

\* A map holds one version per key.
OneVersionPerKey(T) ==
    \A x \in T, y \in T :
        (x.side = y.side /\ x.cat = y.cat /\ x.name = y.name) => x = y

RECURSIVE ItemSets(_)
ItemSets(k) ==
    IF k = 0 THEN {{}}
    ELSE LET prev == ItemSets(k - 1)
         IN  prev \cup {T \cup {x} : T \in prev, x \in Items}

DiffInputs == {T \in ItemSets(MaxItems) : OneVersionPerKey(T)}

NamesOf(T, side, cat) == {x.name : x \in {y \in T : y.side = side /\ y.cat = cat}}

MapOf(T, cat) ==
    [n \in NamesOf(T, "state", cat) |->
        (CHOOSE x \in T : x.side = "state" /\ x.cat = cat /\ x.name = n).version]

StateOf(T) ==
    [installed_brews    |-> MapOf(T, "brews"),
     installed_casks    |-> MapOf(T, "casks"),
     installed_taps     |-> NamesOf(T, "state", "taps"),
     installed_mas_apps |-> NamesOf(T, "state", "mas_apps")]

IntentOf(T) ==
    [brews    |-> NamesOf(T, "intent", "brews"),
     casks    |-> NamesOf(T, "intent", "casks"),
     taps     |-> NamesOf(T, "intent", "taps"),
     mas_apps |-> NamesOf(T, "intent", "mas_apps")]

\* Reports built by hand, as the tests of display.rs build them: any eight
\* lists with at most MaxTotal entries in all, in any order, repeats allowed.
RECURSIVE Reports(_)
Reports(k) ==
    IF k = 0 THEN {DefaultDiffData}
    ELSE LET prev == Reports(k - 1)
         IN  prev \cup
             {[r EXCEPT ![c][f] = Append(@, n)] :
                 r \in prev, c \in Categories, f \in {"added", "removed"},
                 n \in {<<"a">>, <<"b">>}}

AllReports == Reports(MaxTotal)

SinkLimits == {-1, 3}

\* Display for usize: the decimal digits of n
DigitChar(d) == <<"0", "1", "2", "3", "4", "5", "6", "7", "8", "9">>[d + 1]

RECURSIVE to_string(_)
to_string(n) ==
    IF n < 10 THEN <<DigitChar(n)>>
    ELSE to_string(n \div 10) \o <<DigitChar(n % 10)>>

\* total_added.green() / total_removed.red()
colored(text) == <<SGR>> \o text \o <<SGR>>

TxtHomebrew == <<"H", "O", "M", "E", "B", "R", "E", "W", ":", " ">>
TxtAddedSep == <<" ", "a", "d", "d", "e", "d", ",", " ">>
TxtRemovedEnd == <<" ", "r", "e", "m", "o", "v", "e", "d">>

\* format "HOMEBREW: {} added, {} removed"
stats_line(total_added, total_removed) ==
    TxtHomebrew \o colored(to_string(total_added)) \o TxtAddedSep
    \o colored(to_string(total_removed)) \o TxtRemovedEnd

\* The value of Ok(()): it carries nothing; a number, as the line counts the
\* other write_* functions return.
Unit == 0

WriteStatsCountsMas(written, d, limit) ==
    IF ~has_changes(d) THEN [out |-> written, ret |-> Ok(Unit)]
    ELSE LET total_added ==
                 Len(d.brews.added) + Len(d.casks.added) + Len(d.taps.added)
                 + Len(d.mas_apps.added)
             total_removed ==
                 Len(d.brews.removed) + Len(d.casks.removed) + Len(d.taps.removed)
                 + Len(d.mas_apps.removed)
             w1 == writeln(Writer(written), TxtBlank, limit)
             w2 == writeln(w1, stats_line(total_added, total_removed), limit)
         IN  [out |-> w2.out,
              ret |-> IF w2.failed THEN Err("Io", <<>>) ELSE Ok(Unit)]

\* write_stats
write_stats(written, d, limit) ==
    IF ~has_changes(d) THEN [out |-> written, ret |-> Ok(Unit)]
    ELSE LET total_added ==
                 Len(d.brews.added) + Len(d.casks.added) + Len(d.taps.added)
             total_removed ==
                 Len(d.brews.removed) + Len(d.casks.removed) + Len(d.taps.removed)
             w1 == writeln(Writer(written), TxtBlank, limit)
             w2 == writeln(w1, stats_line(total_added, total_removed), limit)
         IN  [out |-> w2.out,
              ret |-> IF w2.failed THEN Err("Io", <<>>) ELSE Ok(Unit)]

-----------------------------------------------------------------------------
(* The outside world.                                                       *)

NoSys == [brew |-> {}, procs |-> <<>>]
NoFs  == [activate |-> "absent", script |-> <<>>, files |-> {}, manifest |-> <<>>]

ProfileOld == <<"/", "o">>
ProfileNew == <<"/", "n">>

\* `entry` is the entry point of lib.rs the caller invokes, "none" when a
\* single function is called directly.
World(sys, fs, sink, entry) ==
    [sys |-> sys, fs |-> fs, sink |-> sink, entry |-> entry]

-----------------------------------------------------------------------------
(* The calls of diff.rs and display.rs on given values.                     *)

InitDiff ==
    /\ pc = "start"
    /\ env = World(NoSys, NoFs, -1, "none")
    /\ \E T \in DiffInputs : cur = StateOf(T) /\ intent = IntentOf(T)
    /\ diff = DefaultDiffData
    /\ out = <<>>
    /\ ret = NoResult
    /\ log = <<>>

InitRender ==
    /\ pc = "ready"
    /\ \E limit \in SinkLimits : env = World(NoSys, NoFs, limit, "none")
    /\ cur = DefaultState
    /\ intent = DefaultIntent
    /\ diff \in AllReports
    /\ out = <<>>
    /\ ret = NoResult
    /\ log = <<>>

\* let diff = HomebrewDiffData::compute(&state, &intent);
Compute ==
    /\ pc = "start"
    /\ \E o \in ComputeOrders(cur, intent) : diff' = compute(cur, intent, o)
    /\ pc' = "ready"
    /\ log' = Append(log, "compute")
    /\ UNCHANGED <<env, cur, intent, out, ret>>

\* diff.has_changes()
HasChanges ==
    /\ pc = "ready"
    /\ ret' = Ok(has_changes(diff))
    /\ pc' = "has_changes"
    /\ UNCHANGED <<env, cur, intent, diff, out, log>>

\* diff.total_changes()
TotalChanges ==
    /\ pc = "ready"
    /\ ret' = Ok(total_changes(diff))
    /\ pc' = "total_changes"
    /\ UNCHANGED <<env, cur, intent, diff, out, log>>

\* write_diff(&mut writer, &diff)
WriteDiff ==
    /\ pc = "ready"
    /\ LET r == write_diff(out, diff, env.sink)
       IN  out' = r.out /\ ret' = r.ret
    /\ pc' = "write_diff"
    /\ UNCHANGED <<env, cur, intent, diff, log>>

\* write_diff_with_header(&mut writer, old, new, &diff)
WriteDiffWithHeader ==
    /\ pc = "ready"
    /\ LET r == write_diff_with_header(out, ProfileOld, ProfileNew, diff, env.sink)
       IN  out' = r.out /\ ret' = r.ret
    /\ pc' = "write_diff_with_header"
    /\ UNCHANGED <<env, cur, intent, diff, log>>

NextDiff == Compute \/ HasChanges \/ TotalChanges
SpecDiff == InitDiff /\ [][NextDiff]_vars

NextRender == HasChanges \/ TotalChanges \/ WriteDiff \/ WriteDiffWithHeader
SpecRender == InitRender /\ [][NextRender]_vars

\* The summary is written to a fresh writer or after either report format;
\* a writer of limit 1 fails the second line it is given.
StatsSinkLimits == {-1, 1}

InitStats ==
    /\ pc = "ready"
    /\ \E limit \in StatsSinkLimits : env = World(NoSys, NoFs, limit, "none")
    /\ cur = DefaultState
    /\ intent = DefaultIntent
    /\ diff \in AllReports
    /\ out = <<>>
    /\ ret = NoResult
    /\ log = <<>>

\* write_stats(&mut writer, &diff); the log keeps how many lines the writer
\* held when the call was made.
WriteStats ==
    /\ pc \in {"ready", "write_diff", "write_diff_with_header"}
    /\ LET r == write_stats(out, diff, env.sink)
       IN  out' = r.out /\ ret' = r.ret
    /\ pc' = "write_stats"
    /\ log' = Append(log, [op |-> "write_stats", after |-> pc, at |-> Len(out)])
    /\ UNCHANGED <<env, cur, intent, diff>>

SpecStats == InitStats /\ [][WriteDiff \/ WriteDiffWithHeader \/ WriteStats]_vars

-----------------------------------------------------------------------------
(* Text operations of std used by state.rs and intent.rs.                   *)

NL == "\n"

is_whitespace(c) == c \in {" ", "\t", NL}

\* The first position of character c in s, 0 when absent (str::find).
RECURSIVE FindFrom(_, _, _)
FindFrom(s, c, i) ==
    IF i > Len(s) THEN 0
    ELSE IF s[i] = c THEN i
    ELSE FindFrom(s, c, i + 1)

find(s, c) == FindFrom(s, c, 1)

\* str::lines: split at line feeds; a final line feed ends the last line
\* and starts no empty one.
RECURSIVE lines(_)
lines(s) ==
    IF s = <<>> THEN <<>>
    ELSE LET i == find(s, NL)
         IN  IF i = 0 THEN <<s>>
             ELSE <<SubSeq(s, 1, i - 1)>> \o lines(SubSeq(s, i + 1, Len(s)))

RECURSIVE SkipWhitespace(_)
SkipWhitespace(s) ==
    IF s # <<>> /\ is_whitespace(Head(s)) THEN SkipWhitespace(Tail(s)) ELSE s

RECURSIVE TakeToken(_)
TakeToken(s) ==
    IF s = <<>> \/ is_whitespace(Head(s)) THEN <<>>
    ELSE <<Head(s)>> \o TakeToken(Tail(s))

\* str::split_whitespace: the maximal runs of non-whitespace characters.
RECURSIVE split_whitespace(_)
split_whitespace(s) ==
    LET r == SkipWhitespace(s)
    IN  IF r = <<>> THEN <<>>
        ELSE LET t == TakeToken(r)
             IN  <<t>> \o split_whitespace(SubSeq(r, Len(t) + 1, Len(r)))

\* [&str]::join(sep)
RECURSIVE join(_, _)
join(parts, sep) ==
    IF parts = <<>> THEN <<>>
    ELSE IF Len(parts) = 1 THEN parts[1]
    ELSE parts[1] \o sep \o join(Tail(parts), sep)

starts_with(s, prefix) ==
    Len(prefix) <= Len(s) /\ SubSeq(s, 1, Len(prefix)) = prefix

-----------------------------------------------------------------------------
(* state.rs                                                                 *)

BrewOpt == "/opt/homebrew/bin/brew"
BrewUsr == "/usr/local/bin/brew"

\* The external commands detect() may run.
CmdLeaves       == "brew leaves"
CmdListVersions == "brew list --versions <leaves>"
CmdListCask     == "brew list --cask --versions"
CmdTap          == "brew tap"
CmdWhichMas     == "which mas"
CmdMasList      == "mas list"
Commands ==
    {CmdLeaves, CmdListVersions, CmdListCask, CmdTap, CmdWhichMas, CmdMasList}

\* homebrew_installed
homebrew_installed(sys) == BrewOpt \in sys.brew \/ BrewUsr \in sys.brew

\* get_brew_command
get_brew_command(sys) == IF BrewOpt \in sys.brew THEN BrewOpt ELSE BrewUsr

ProgramOf(sys, cmd) ==
    CASE cmd = CmdWhichMas -> "which"
      [] cmd = CmdMasList  -> "mas"
      [] OTHER             -> get_brew_command(sys)

\* Command::new(..).args(..).output(): the log entry of one spawn attempt.
Spawn(sys, cmd) == [op |-> "spawn", prog |-> ProgramOf(sys, cmd), cmd |-> cmd]

\* The result of a helper and the operations it performed.
Did(r, ops) == [ret |-> r, log |-> ops]

InsertVersionLineKeepsFirst(map, line) ==
    LET parts == split_whitespace(line)
    IN  IF parts = <<>> THEN map
        ELSE LET name    == parts[1]
                 version == IF Len(parts) > 1 THEN join(Tail(parts), <<" ">>)
                            ELSE <<"u", "n", "k", "n", "o", "w", "n">>
             IN  [n \in DOMAIN map \cup {name} |->
                     IF n \in DOMAIN map THEN map[n] ELSE version]

\* parse_list_versions_output, the loop body: the map after one line
InsertVersionLine(map, line) ==
    LET parts == split_whitespace(line)
    IN  IF parts = <<>> THEN map
        ELSE LET name    == parts[1]
                 version == IF Len(parts) > 1 THEN join(Tail(parts), <<" ">>)
                            ELSE <<"u", "n", "k", "n", "o", "w", "n">>
             IN  [n \in DOMAIN map \cup {name} |->
                     IF n = name THEN version ELSE map[n]]

RECURSIVE InsertVersionLines(_, _)
InsertVersionLines(map, ls) ==
    IF ls = <<>> THEN map
    ELSE InsertVersionLines(InsertVersionLine(map, Head(ls)), Tail(ls))

\* parse_list_versions_output
parse_list_versions_output(output) ==
    IF ~output.utf8 THEN Err("Utf8", <<>>)
    ELSE Ok(InsertVersionLines(<<>>, lines(output.stdout)))

\* get_installed_formulae
get_installed_formulae(sys) ==
    LET leaves_output == sys.procs[CmdLeaves]
        s1 == <<Spawn(sys, CmdLeaves)>>
    IN  IF ~leaves_output.spawn
        THEN Did(Err("CommandFailed", "brew leaves failed"), s1)
        ELSE IF ~leaves_output.success THEN Did(Ok(<<>>), s1)
        ELSE IF ~leaves_output.utf8 THEN Did(Err("Utf8", <<>>), s1)
        ELSE IF lines(leaves_output.stdout) = <<>> THEN Did(Ok(<<>>), s1)
        ELSE LET versions_output == sys.procs[CmdListVersions]
                 s2 == Append(s1, Spawn(sys, CmdListVersions))
             IN  IF ~versions_output.spawn
                 THEN Did(Err("CommandFailed", "brew list --versions failed"), s2)
                 ELSE IF ~versions_output.success THEN Did(Ok(<<>>), s2)
                 ELSE Did(parse_list_versions_output(versions_output), s2)

\* get_installed_casks
get_installed_casks(sys) ==
    LET output == sys.procs[CmdListCask]
        s1 == <<Spawn(sys, CmdListCask)>>
    IN  IF ~output.spawn
        THEN Did(Err("CommandFailed", "brew list --cask failed"), s1)
        ELSE IF ~output.success THEN Did(Ok(<<>>), s1)
        ELSE Did(parse_list_versions_output(output), s1)

GetTapsNonZeroFatal(sys) ==
    LET output == sys.procs[CmdTap]
        s1 == <<Spawn(sys, CmdTap)>>
    IN  IF ~output.spawn \/ ~output.success
        THEN Did(Err("CommandFailed", "brew tap failed"), s1)
        ELSE IF ~output.utf8 THEN Did(Err("Utf8", <<>>), s1)
        ELSE Did(Ok(Range(lines(output.stdout))), s1)

\* get_taps
get_taps(sys) ==
    LET output == sys.procs[CmdTap]
        s1 == <<Spawn(sys, CmdTap)>>
    IN  IF ~output.spawn
        THEN Did(Err("CommandFailed", "brew tap failed"), s1)
        ELSE IF ~output.success THEN Did(Ok({}), s1)
        ELSE IF ~output.utf8 THEN Did(Err("Utf8", <<>>), s1)
        ELSE Did(Ok(Range(lines(output.stdout))), s1)

\* parts.iter().rposition(|p| p.starts_with('(')): the last such position,
\* 0 for None (positions count from 1 here, from 0 in the source).
rposition_paren(parts) ==
    LET hits == {i \in 1..Len(parts) : starts_with(parts[i], <<"(">>)}
    IN  IF hits = {} THEN 0 ELSE CHOOSE i \in hits : \A j \in hits : j <= i

\* get_mas_apps, the loop body: the set after one line; `panicked` when
\* the slice &parts[1..idx] has idx = 0 and aborts the call.
InsertMasLine(acc, line) ==
    LET parts == split_whitespace(line)
    IN  IF Len(parts) >= 2
        THEN LET id            == parts[1]
                 version_start == rposition_paren(parts)
             IN  IF version_start = 1 THEN [acc EXCEPT !.panicked = TRUE]
                 ELSE LET name_parts ==
                              IF version_start # 0
                              THEN SubSeq(parts, 2, version_start - 1)
                              ELSE Tail(parts)
                          name == join(name_parts, <<" ">>)
                      IN  [acc EXCEPT !.apps =
                              @ \cup {name \o <<" ", "(">> \o id \o <<")">>}]
        ELSE acc

RECURSIVE InsertMasLines(_, _)
InsertMasLines(acc, ls) ==
    IF ls = <<>> \/ acc.panicked THEN acc
    ELSE InsertMasLines(InsertMasLine(acc, Head(ls)), Tail(ls))

GetMasAppsHelperRequired(sys) ==
    LET s1 == <<Spawn(sys, CmdWhichMas)>>
    IN  IF ~sys.procs[CmdWhichMas].spawn \/ ~sys.procs[CmdWhichMas].success
        THEN Did(Err("CommandFailed", "which mas failed"), s1)
        ELSE Did(Ok({}), s1)

\* get_mas_apps
get_mas_apps(sys) ==
    LET mas_check == sys.procs[CmdWhichMas]
        s1 == <<Spawn(sys, CmdWhichMas)>>
    IN  IF ~mas_check.spawn
        THEN Did(Err("CommandFailed", "which mas failed"), s1)
        ELSE IF ~mas_check.success THEN Did(Ok({}), s1)
        ELSE LET output == sys.procs[CmdMasList]
                 s2 == Append(s1, Spawn(sys, CmdMasList))
             IN  IF ~output.spawn
                 THEN Did(Err("CommandFailed", "mas list failed"), s2)
                 ELSE IF ~output.success THEN Did(Ok({}), s2)
                 ELSE IF ~output.utf8 THEN Did(Err("Utf8", <<>>), s2)
                 ELSE LET r == InsertMasLines([panicked |-> FALSE, apps |-> {}],
                                              lines(output.stdout))
                      IN  IF r.panicked
                          THEN Did(Panicked("slice index starts at 1 but ends at 0"), s2)
                          ELSE Did(Ok(r.apps), s2)

\* HomebrewState::detect: the four fields are evaluated in the order
\* written, each `?` returning the first error.
detect(sys) ==
    IF ~homebrew_installed(sys) THEN Did(Ok(DefaultState), <<>>)
    ELSE
    LET b == get_installed_formulae(sys) IN
    IF b.ret.kind # "Ok" THEN b ELSE
    LET c == get_installed_casks(sys) IN
    IF c.ret.kind # "Ok" THEN Did(c.ret, b.log \o c.log) ELSE
    LET t == get_taps(sys) IN
    IF t.ret.kind # "Ok" THEN Did(t.ret, b.log \o c.log \o t.log) ELSE
    LET m == get_mas_apps(sys) IN
    IF m.ret.kind # "Ok" THEN Did(m.ret, b.log \o c.log \o t.log \o m.log) ELSE
    Did(Ok([installed_brews    |-> b.ret.val,
            installed_casks    |-> c.ret.val,
            installed_taps     |-> t.ret.val,
            installed_mas_apps |-> m.ret.val]),
        b.log \o c.log \o t.log \o m.log)

-----------------------------------------------------------------------------
(* intent.rs                                                                *)

RECURSIVE TrimStart(_)
TrimStart(s) ==
    IF s # <<>> /\ is_whitespace(Head(s)) THEN TrimStart(Tail(s)) ELSE s

RECURSIVE TrimEnd(_)
TrimEnd(s) ==
    IF s # <<>> /\ is_whitespace(s[Len(s)])
    THEN TrimEnd(SubSeq(s, 1, Len(s) - 1))
    ELSE s

\* str::trim
trim(s) == TrimEnd(TrimStart(s))

\* The first position at which `pat` occurs in s, 0 when it does not.
RECURSIVE FindSubFrom(_, _, _)
FindSubFrom(s, pat, i) ==
    IF i + Len(pat) - 1 > Len(s) THEN 0
    ELSE IF SubSeq(s, i, i + Len(pat) - 1) = pat THEN i
    ELSE FindSubFrom(s, pat, i + 1)

\* An Option<String>.
None == [some |-> FALSE, value |-> <<>>]
Some(v) == [some |-> TRUE, value |-> v]

\* extract_quoted_value
extract_quoted_value(line) ==
    LET start == find(line, "\"")
    IN  IF start = 0 THEN None
        ELSE LET rest == SubSeq(line, start + 1, Len(line))
                 end  == find(rest, "\"")
             IN  IF end = 0 THEN None ELSE Some(SubSeq(rest, 1, end - 1))

TxtIdMarker == <<"i", "d", ":">>

\* line.split("id:").nth(1): the text between the first "id:" and the next
\* one (or the end of the line).
SplitIdNth1(line) ==
    LET i == FindSubFrom(line, TxtIdMarker, 1)
    IN  IF i = 0 THEN None
        ELSE LET rest == SubSeq(line, i + Len(TxtIdMarker), Len(line))
                 j    == FindSubFrom(rest, TxtIdMarker, 1)
             IN  Some(IF j = 0 THEN rest ELSE SubSeq(rest, 1, j - 1))

\* parse_mas_line: Some(<<name, id>>) or None
parse_mas_line(line) ==
    LET name    == extract_quoted_value(line)
        id_part == SplitIdNth1(line)
    IN  IF ~name.some THEN None
        ELSE IF ~id_part.some THEN None
        ELSE Some(<<name.value, trim(id_part.value)>>)

TxtBrewQ == <<"b", "r", "e", "w", " ", "\"">>
TxtCaskQ == <<"c", "a", "s", "k", " ", "\"">>
TxtTapQ  == <<"t", "a", "p", " ", "\"">>
TxtMasQ  == <<"m", "a", "s", " ", "\"">>

ParseBrewfileLineKeepsLastBrew(it, raw) ==
    LET line == trim(raw)
    IN  IF starts_with(line, <<"#">>) \/ line = <<>> THEN it
        ELSE IF starts_with(line, TxtBrewQ)
        THEN LET v == extract_quoted_value(line)
             IN  IF v.some THEN [it EXCEPT !.brews = {v.value}] ELSE it
        ELSE IF starts_with(line, TxtCaskQ)
        THEN LET v == extract_quoted_value(line)
             IN  IF v.some THEN [it EXCEPT !.casks = @ \cup {v.value}] ELSE it
        ELSE IF starts_with(line, TxtTapQ)
        THEN LET v == extract_quoted_value(line)
             IN  IF v.some THEN [it EXCEPT !.taps = @ \cup {v.value}] ELSE it
        ELSE IF starts_with(line, TxtMasQ)
        THEN LET m == parse_mas_line(line)
             IN  IF m.some
                 THEN [it EXCEPT !.mas_apps =
                          @ \cup {m.value[1] \o <<" ", "(">> \o m.value[2] \o <<")">>}]
                 ELSE it
        ELSE it

\* parse_brewfile, the loop body: the intent after one line
ParseBrewfileLine(it, raw) ==
    LET line == trim(raw)
    IN  IF starts_with(line, <<"#">>) \/ line = <<>> THEN it
        ELSE IF starts_with(line, TxtBrewQ)
        THEN LET v == extract_quoted_value(line)
             IN  IF v.some THEN [it EXCEPT !.brews = @ \cup {v.value}] ELSE it
        ELSE IF starts_with(line, TxtCaskQ)
        THEN LET v == extract_quoted_value(line)
             IN  IF v.some THEN [it EXCEPT !.casks = @ \cup {v.value}] ELSE it
        ELSE IF starts_with(line, TxtTapQ)
        THEN LET v == extract_quoted_value(line)
             IN  IF v.some THEN [it EXCEPT !.taps = @ \cup {v.value}] ELSE it
        ELSE IF starts_with(line, TxtMasQ)
        THEN LET m == parse_mas_line(line)
             IN  IF m.some
                 THEN [it EXCEPT !.mas_apps =
                          @ \cup {m.value[1] \o <<" ", "(">> \o m.value[2] \o <<")">>}]
                 ELSE it
        ELSE it

RECURSIVE ParseBrewfileLines(_, _)
ParseBrewfileLines(it, ls) ==
    IF ls = <<>> THEN it
    ELSE ParseBrewfileLines(ParseBrewfileLine(it, Head(ls)), Tail(ls))

\* A file system operation in the log.
FsOp(op, path) == [op |-> op, path |-> path]

\* parse_brewfile
parse_brewfile(fs, path) ==
    IF path \notin fs.files
    THEN Did(Err("ParseError", path), <<FsOp("exists", path)>>)
    ELSE IF ~fs.manifest.readable
    THEN Did(Err("Io", path), <<FsOp("exists", path), FsOp("read", path)>>)
    ELSE Did(Ok(ParseBrewfileLines(DefaultIntent, lines(fs.manifest.text))),
             <<FsOp("exists", path), FsOp("read", path)>>)

\* The activation script as the regex sees it: a sequence of lexemes,
\*   "P" the text  brew bundle --file=     "Q" a single quote
\*   "B" the text  Brewfile                "x" any other text without a quote
ScriptLexemes == {"P", "Q", "B", "x"}

\* Whether r"brew bundle --file='([^']+Brewfile)'.*" matches at lexeme i:
\* the quoted text runs to the next quote, ends in Brewfile and has at least
\* one character before it.
RegexMatchesAt(s, i) ==
    /\ i + 1 <= Len(s)
    /\ s[i] = "P"
    /\ s[i + 1] = "Q"
    /\ LET j == FindFrom(s, "Q", i + 2)
       IN  j # 0 /\ j - (i + 2) >= 2 /\ s[j - 1] = "B"

\* brewfile_regex.captures(&content): group 1 of the leftmost match.
brewfile_captures(s) ==
    LET hits == {i \in 1..Len(s) : RegexMatchesAt(s, i)}
    IN  IF hits = {} THEN None
        ELSE LET i == CHOOSE k \in hits : \A h \in hits : k <= h
             IN  Some(SubSeq(s, i + 2, FindFrom(s, "Q", i + 2) - 1))

TxtActivate == <<"a", "c", "t", "i", "v", "a", "t", "e">>

\* Path::join with a relative file name
path_join(dir, name) ==
    IF dir # <<>> /\ dir[Len(dir)] = "/" THEN dir \o name
    ELSE dir \o <<"/">> \o name

ExtractSkipsExistsCheck(fs, profile) ==
    LET activate_path == path_join(profile, TxtActivate)
        r1 == <<FsOp("read", activate_path)>>
    IN  IF fs.activate # "file" THEN Did(Err("Io", activate_path), r1)
        ELSE LET captures == brewfile_captures(fs.script)
             IN  IF captures.some
                 THEN LET b == parse_brewfile(fs, captures.value)
                      IN  Did(b.ret, r1 \o b.log)
                 ELSE Did(Err("BrewfileNotFound", <<>>), r1)

\* extract_from_activation_script
extract_from_activation_script(fs, profile) ==
    LET activate_path == path_join(profile, TxtActivate)
        e1 == <<FsOp("exists", activate_path)>>
        r1 == Append(e1, FsOp("read", activate_path))
    IN  IF fs.activate = "absent"
        THEN Did(Err("NoActivationScript", activate_path), e1)
        ELSE IF fs.activate # "file" THEN Did(Err("Io", activate_path), r1)
        ELSE LET captures == brewfile_captures(fs.script)
             IN  IF captures.some
                 THEN LET b == parse_brewfile(fs, captures.value)
                      IN  Did(b.ret, r1 \o b.log)
                 ELSE Did(Err("BrewfileNotFound", <<>>), r1)

\* HomebrewIntent::extract
extract(fs, profile) == extract_from_activation_script(fs, profile)

-----------------------------------------------------------------------------
(* The profiles extract() may meet.                                         *)

MaxScriptLen == 5

RECURSIVE SeqsUpTo(_, _)
SeqsUpTo(S, k) ==
    IF k = 0 THEN {<<>>}
    ELSE LET prev == SeqsUpTo(S, k - 1)
         IN  prev \cup {Append(q, x) : q \in prev, x \in S}

Scripts == SeqsUpTo(ScriptLexemes, MaxScriptLen)

\* The manifest paths that may exist on disk.
KnownPaths == {<<"x", "B">>, <<"B", "B">>}

ManifestText ==
    <<"#", " ", "c", NL>>
    \o <<NL>>
    \o <<" ", " ", "t", "a", "p", " ", "\"", "x", "/", "a", "\"", NL>>
    \o <<"b", "r", "e", "w", " ", "\"", "a", "\"", NL>>
    \o <<"b", "r", "e", "w", " ", "\"", "a", "b", "\"", " ", "#", " ", "x", NL>>
    \o <<"c", "a", "s", "k", " ", "\"", "b", "\"", NL>>
    \o <<"m", "a", "s", " ", "\"", "a", " ", "b", "\"", ",", " ", "i", "d", ":", " ", "1", NL>>
    \o <<"b", "r", "e", "w", " ", "a", NL>>
    \o <<"f", "o", "o", NL>>

Manifests ==
    {[readable |-> FALSE, text |-> <<>>],
     [readable |-> TRUE, text |-> <<>>],
     [readable |-> TRUE, text |-> ManifestText]}

\* A profile directory: `activate` is absent, is something that exists but
\* cannot be read as text, or is a file holding a script.
FileSystems ==
    [activate : {"absent", "unreadable"}, script : {<<>>},
     files : SUBSET KnownPaths, manifest : Manifests]
    \cup [activate : {"file"}, script : Scripts,
          files : SUBSET KnownPaths, manifest : Manifests]

InitExtract ==
    /\ pc = "start"
    /\ \E fs \in FileSystems : env = World(NoSys, fs, -1, "none")
    /\ cur = DefaultState
    /\ intent = DefaultIntent
    /\ diff = DefaultDiffData
    /\ out = <<>>
    /\ ret = NoResult
    /\ log = <<>>

\* HomebrewIntent::extract(profile)
Extract ==
    /\ pc = "start"
    /\ LET r == extract(env.fs, ProfileNew)
       IN  /\ ret' = r.ret
           /\ log' = log \o r.log
           /\ intent' = IF r.ret.kind = "Ok" THEN r.ret.val ELSE intent
    /\ pc' = "extracted"
    /\ UNCHANGED <<env, cur, diff, out>>

NextExtract == Extract
SpecExtract == InitExtract /\ [][NextExtract]_vars

-----------------------------------------------------------------------------
(* The processes detect() may meet.                                         *)

\* std::process::Output of one command, or the failure to spawn it.
SpawnError == [spawn |-> FALSE, success |-> FALSE, utf8 |-> TRUE, stdout |-> <<>>]
Exited(success, utf8, stdout) ==
    [spawn |-> TRUE, success |-> success, utf8 |-> utf8, stdout |-> stdout]

\* Every way a command may end: not spawned; a non-zero exit with text or
\* with bytes that are no text on stdout; a zero exit with bytes that are no
\* text; a zero exit with one of `texts`.
Outcomes(texts) ==
    {SpawnError}
    \cup {Exited(FALSE, u, <<"x", " ", "3", NL>>) : u \in BOOLEAN}
    \cup {Exited(TRUE, FALSE, <<>>)}
    \cup {Exited(TRUE, TRUE, t) : t \in texts}

TextsOf(cmd) ==
    CASE cmd = CmdLeaves       -> {<<>>, <<"a", NL, "b", NL>>}
      [] cmd = CmdListVersions -> {<<"a", " ", "1", " ", " ", "2", NL, NL, "b", NL>>}
      [] cmd = CmdListCask     -> {<<"b", " ", "1", NL>>}
      [] cmd = CmdTap          -> {<<"x", "/", "a", NL, "b", NL>>}
      [] cmd = CmdWhichMas     -> {<<"/", "m", "a", "s", NL>>}
      [] cmd = CmdMasList      -> {<<"1", " ", " ", "a", " ", "b", " ", "(", "2", ")", NL>>,
                                   <<"(", "1", " ", "a", NL>>}

ProcessTables ==
    {[c \in Commands |->
        CASE c = CmdLeaves       -> o1
          [] c = CmdListVersions -> o2
          [] c = CmdListCask     -> o3
          [] c = CmdTap          -> o4
          [] c = CmdWhichMas     -> o5
          [] c = CmdMasList      -> o6] :
        o1 \in Outcomes(TextsOf(CmdLeaves)),
        o2 \in Outcomes(TextsOf(CmdListVersions)),
        o3 \in Outcomes(TextsOf(CmdListCask)),
        o4 \in Outcomes(TextsOf(CmdTap)),
        o5 \in Outcomes(TextsOf(CmdWhichMas)),
        o6 \in Outcomes(TextsOf(CmdMasList))}

Systems == [brew : SUBSET {BrewOpt, BrewUsr}, procs : ProcessTables]

InitDetect ==
    /\ pc = "start"
    /\ \E sys \in Systems : env = World(sys, NoFs, -1, "none")
    /\ cur = DefaultState
    /\ intent = DefaultIntent
    /\ diff = DefaultDiffData
    /\ out = <<>>
    /\ ret = NoResult
    /\ log = <<>>

\* HomebrewState::detect()
Detect ==
    /\ pc = "start"
    /\ LET r == detect(env.sys)
       IN  /\ ret' = r.ret
           /\ log' = log \o r.log
           /\ cur' = IF r.ret.kind = "Ok" THEN r.ret.val ELSE cur
    /\ pc' = "detected"
    /\ UNCHANGED <<env, intent, diff, out>>

NextDetect == Detect
SpecDetect == InitDetect /\ [][NextDetect]_vars

-----------------------------------------------------------------------------
(* lib.rs: the two pipeline entry points.                                   *)

\* The systems and profiles the pipeline is run against: brew absent or
\* present; `brew leaves` not spawnable, or listing nothing or two leaves;
\* `brew tap` exiting non-zero or zero; `mas list` printing a regular row or
\* a row whose first token starts with "(".
PipelineSystems ==
    {[brew |-> b,
      procs |-> [c \in Commands |->
          CASE c = CmdLeaves  -> o1
            [] c = CmdTap     -> o4
            [] c = CmdMasList -> o6
            [] OTHER -> Exited(TRUE, TRUE, CHOOSE t \in TextsOf(c) : TRUE)]] :
        b \in {{}, {BrewOpt}},
        o1 \in {SpawnError} \cup {Exited(TRUE, TRUE, t) : t \in TextsOf(CmdLeaves)},
        o4 \in {Exited(FALSE, TRUE, <<>>)}
               \cup {Exited(TRUE, TRUE, t) : t \in TextsOf(CmdTap)},
        o6 \in {Exited(TRUE, TRUE, t) : t \in TextsOf(CmdMasList)}}

PipelineFileSystems ==
    {fs \in FileSystems :
        /\ fs.script \in {<<>>, <<"P", "Q", "x", "B", "Q">>}
        /\ fs.files \in {{}, {<<"x", "B">>}}
        /\ fs.activate # "unreadable"}

Stage(name) == [op |-> "stage", name |-> name]

Init ==
    /\ pc = "idle"
    /\ \E sys \in PipelineSystems, fs \in PipelineFileSystems,
          limit \in SinkLimits, entry \in {"spawn_homebrew_diff", "write_homebrew_diffln"} :
           env = World(sys, fs, limit, entry)
    /\ cur = DefaultState
    /\ intent = DefaultIntent
    /\ diff = DefaultDiffData
    /\ out = <<>>
    /\ ret = NoResult
    /\ log = <<>>

\* The caller invokes the entry point: thread::spawn(move || ..) or the
\* call of write_homebrew_diffln.
Invoke ==
    /\ pc = "idle"
    /\ pc' = "detect"
    /\ UNCHANGED <<env, cur, intent, diff, out, ret, log>>

\* let current_state = HomebrewState::detect()?;
DetectStep ==
    /\ pc = "detect"
    /\ LET r == detect(env.sys)
       IN  /\ log' = log \o <<Stage("detect")>> \o r.log
           /\ IF r.ret.kind = "Ok"
              THEN cur' = r.ret.val /\ ret' = ret /\ pc' = "extract"
              ELSE cur' = cur /\ ret' = r.ret /\ pc' = "finished"
    /\ UNCHANGED <<env, intent, diff, out>>

\* let nix_intent = HomebrewIntent::extract(new_profile)?;
ExtractStep ==
    /\ pc = "extract"
    /\ LET r == extract(env.fs, ProfileNew)
       IN  /\ log' = log \o <<Stage("extract")>> \o r.log
           /\ IF r.ret.kind = "Ok"
              THEN intent' = r.ret.val /\ ret' = ret /\ pc' = "compute"
              ELSE intent' = intent /\ ret' = r.ret /\ pc' = "finished"
    /\ UNCHANGED <<env, cur, diff, out>>

\* HomebrewDiffData::compute(&current_state, &nix_intent), which the
\* worker of spawn_homebrew_diff returns as Ok(..)
ComputeStep ==
    /\ pc = "compute"
    /\ \E o \in ComputeOrders(cur, intent) :
        /\ diff' = compute(cur, intent, o)
        /\ IF env.entry = "spawn_homebrew_diff"
           THEN ret' = Ok(diff') /\ pc' = "finished"
           ELSE ret' = ret /\ pc' = "render"
    /\ log' = Append(log, Stage("compute"))
    /\ UNCHANGED <<env, cur, intent, out>>

\* display::write_diff(writer, &diff_data)
RenderStep ==
    /\ pc = "render"
    /\ LET r == write_diff(out, diff, env.sink)
       IN  out' = r.out /\ ret' = r.ret
    /\ pc' = "finished"
    /\ log' = Append(log, Stage("render"))
    /\ UNCHANGED <<env, cur, intent, diff>>

\* The caller gets the outcome: handle.join() for the worker, the return of
\* write_homebrew_diffln otherwise. A panic arrives as the Err of join() or
\* unwinds into the caller: either way no Result of the pipeline arrives.
Deliver ==
    /\ pc = "finished"
    /\ pc' = "done"
    /\ UNCHANGED <<env, cur, intent, diff, out, ret, log>>

Next ==
    \/ Invoke
    \/ DetectStep
    \/ ExtractStep
    \/ ComputeStep
    \/ RenderStep
    \/ Deliver

Spec == Init /\ [][Next]_vars

-----------------------------------------------------------------------------
(* The parsers on given texts: a manifest for parse_brewfile, the output of *)
(* `brew list --cask --versions` for parse_list_versions_output, the output *)
(* of `mas list` for get_mas_apps.                                          *)

MaxManifestLines == 2
MaxOutputLen == 5

\* Lines a manifest may hold: app-store lines (plain, padded, with text
\* after the id, without closing quote, without id), the other directives,
\* a comment, a blank line and lines that are no directive.
BrewfileLines ==
    {<<"m", "a", "s", " ", "\"", "a", "\"", ",", " ", "i", "d", ":", " ", "1">>,
     <<"m", "a", "s", " ", "\"", "a", " ", "b", "\"", ",", " ", "i", "d", ":", " ", "1", "2">>,
     <<" ", " ", "m", "a", "s", " ", "\"", "a", "\"", ",", " ", " ", "i", "d", ":", " ", " ", "1", " ", " ">>,
     <<"m", "a", "s", " ", "\"", "a", "\"", ",", " ", "i", "d", ":", " ", "1", " ", "x">>,
     <<"m", "a", "s", " ", "\"", "a", ",", " ", "i", "d", ":", " ", "1">>,
     <<"m", "a", "s", " ", "\"", "a", "\"">>,
     <<"b", "r", "e", "w", " ", "\"", "a", "\"">>,
     <<"b", "r", "e", "w", " ", "\"", "a", "b", "\"", " ", "#", " ", "x">>,
     <<"c", "a", "s", "k", " ", "\"", "b", "\"">>,
     <<"t", "a", "p", " ", "\"", "x", "/", "a", "\"">>,
     <<"#", " ", "c">>,
     <<>>,
     <<"f", "o", "o">>,
     <<"b", "r", "e", "w", " ", "a">>}

\* A machine with brew and the helper installed, every command succeeding.
ParseSys(versions, mas) ==
    [brew |-> {BrewOpt},
     procs |-> [c \in Commands |->
         CASE c = CmdListCask -> Exited(TRUE, TRUE, versions)
           [] c = CmdMasList  -> Exited(TRUE, TRUE, mas)
           [] OTHER           -> Exited(TRUE, TRUE, <<>>)]]

\* A readable manifest at the path <<"x", "B">>.
ParseFs(text) ==
    [activate |-> "absent", script |-> <<>>, files |-> {<<"x", "B">>},
     manifest |-> [readable |-> TRUE, text |-> text]]

InitParse ==
    /\ pc = "start"
    /\ \/ \E ls \in SeqsUpTo(BrewfileLines, MaxManifestLines) :
            env = World(ParseSys(<<>>, <<>>), ParseFs(join(ls, <<NL>>)), -1, "none")
       \/ \E v \in SeqsUpTo({"a", "b", " ", NL}, MaxOutputLen) :
            env = World(ParseSys(v, <<>>), ParseFs(<<>>), -1, "none")
       \/ \E m \in SeqsUpTo({"1", "a", "(", " ", NL}, MaxOutputLen) :
            env = World(ParseSys(<<>>, m), ParseFs(<<>>), -1, "none")
    /\ cur = DefaultState
    /\ intent = DefaultIntent
    /\ diff = DefaultDiffData
    /\ out = <<>>
    /\ ret = NoResult
    /\ log = <<>>

\* HomebrewIntent::parse_brewfile(path)
ParseBrewfile ==
    /\ pc = "start"
    /\ LET r == parse_brewfile(env.fs, <<"x", "B">>)
       IN  ret' = r.ret /\ log' = log \o r.log
    /\ pc' = "parse_brewfile"
    /\ UNCHANGED <<env, cur, intent, diff, out>>

\* HomebrewState::parse_list_versions_output(&output.stdout)
ParseListVersions ==
    /\ pc = "start"
    /\ ret' = parse_list_versions_output(env.sys.procs[CmdListCask])
    /\ pc' = "parse_list_versions_output"
    /\ UNCHANGED <<env, cur, intent, diff, out, log>>

\* HomebrewState::get_mas_apps()
GetMasApps ==
    /\ pc = "start"
    /\ LET r == get_mas_apps(env.sys)
       IN  ret' = r.ret /\ log' = log \o r.log
    /\ pc' = "get_mas_apps"
    /\ UNCHANGED <<env, cur, intent, diff, out>>

SpecParse == InitParse /\ [][ParseBrewfile \/ ParseListVersions \/ GetMasApps]_vars

-----------------------------------------------------------------------------
(* The pipeline on app-store apps: some installed, some declared.           *)

MaxApps == 2

\* Apps by id and name: names of one word and of two, a name with a
\* parenthesized word, and a name that contains the letters "id:".
Apps ==
    [id : {<<"1">>, <<"1", "2">>},
     name : {<<"a">>, <<"a", " ", "b">>,
             <<"a", " ", "(", "b", ")">>, <<"F", "l", "u", "i", "d", ":", " ", "a">>}]

\* The row `mas list` prints for an installed app:
\* "1234567890  App Name     (1.2.3)"; some versions hold a space.
MasRow(app) ==
    app.id \o <<" ", " ">> \o app.name \o <<" ", " ", " ">>
    \o (IF Len(app.id) = 1 THEN <<"(", "2", ")">> ELSE <<"(", "1", " ", "b", ")">>)

\* The manifest line that declares an app: mas "App Name", id: 1234567890
MasDirective(app) ==
    <<"m", "a", "s", " ", "\"">> \o app.name \o <<"\"", ",", " ", "i", "d", ":", " ">>
    \o app.id

InitApps ==
    /\ pc = "idle"
    /\ \E installed \in {S \in SUBSET Apps : Cardinality(S) <= MaxApps},
          declared \in {S \in SUBSET Apps : Cardinality(S) <= MaxApps},
          entry \in {"spawn_homebrew_diff", "write_homebrew_diffln"} :
        LET rows == CHOOSE o \in Orders({MasRow(a) : a \in installed}) : TRUE
            decl == CHOOSE o \in Orders({MasDirective(a) : a \in declared}) : TRUE
        IN  env = World(ParseSys(<<>>, join(rows, <<NL>>)),
                        [ParseFs(join(decl, <<NL>>)) EXCEPT
                            !.activate = "file",
                            !.script = <<"P", "Q", "x", "B", "Q">>],
                        -1, entry)
    /\ cur = DefaultState
    /\ intent = DefaultIntent
    /\ diff = DefaultDiffData
    /\ out = <<>>
    /\ ret = NoResult
    /\ log = <<>>

SpecApps == InitApps /\ [][Next]_vars

-----------------------------------------------------------------------------
(* Properties of the diff engine (SpecDiff).                                *)

Computed == log = <<"compute">>

StateNames(st, c) ==
    CASE c = "brews"    -> DOMAIN st.installed_brews
      [] c = "casks"    -> DOMAIN st.installed_casks
      [] c = "taps"     -> st.installed_taps
      [] c = "mas_apps" -> st.installed_mas_apps

\* The same state with every installed version replaced by v.
WithVersions(st, v) ==
    [st EXCEPT !.installed_brews = [n \in DOMAIN @ |-> v],
               !.installed_casks = [n \in DOMAIN @ |-> v]]

\* C1: in each of the four categories compute yields added = the intent
\* names that are not state names and removed = the state names that are
\* not intent names; installed versions have no influence on the result;
\* added and removed share no name.
C1_AddedRemovedAreSetDifferences ==
    Computed =>
        /\ \A c \in Categories :
            /\ Range(diff[c].added) = intent[c] \ StateNames(cur, c)
            /\ Range(diff[c].removed) = StateNames(cur, c) \ intent[c]
            /\ Range(diff[c].added) \cap Range(diff[c].removed) = {}
        /\ \A v \in Versions :
            \E o \in ComputeOrders(cur, intent) :
                compute(WithVersions(cur, v), intent, o) = diff

C1_Witness ==
    /\ Computed
    /\ diff.brews.added = << <<"a", "b">> >>
    /\ diff.brews.removed = <<>>
    /\ <<"a">> \in intent.brews
    /\ <<"a">> \in DOMAIN cur.installed_brews
    /\ cur.installed_brews[<<"a">>] = <<"1">>

StrictlyAscending(l) == \A i \in 1..(Len(l) - 1) : StrLess(l[i], l[i + 1])

\* C2: each of the eight lists compute produces is sorted ascending in
\* byte-wise lexicographic order and has no duplicate, and every iteration
\* order of the input sets and maps gives the same eight lists.
C2_SortedDuplicateFreeAnyOrder ==
    Computed =>
        /\ \A c \in Categories :
            /\ StrictlyAscending(diff[c].added)
            /\ StrictlyAscending(diff[c].removed)
        /\ \A o \in ComputeOrders(cur, intent) : compute(cur, intent, o) = diff

C2_Witness ==
    /\ Computed
    /\ diff.casks.added = << <<"a">>, <<"a", "b">>, <<"b">> >>

-----------------------------------------------------------------------------
(* Properties of has_changes, total_changes and the block format            *)
(* (SpecRender).                                                            *)

Slots == Categories \X {"added", "removed"}

RECURSIVE SumOfLengths(_, _)
SumOfLengths(d, S) ==
    IF S = {} THEN 0
    ELSE LET s == CHOOSE x \in S : TRUE
         IN  Len(d[s[1]][s[2]]) + SumOfLengths(d, S \ {s})

AllListsEmpty(d) == \A s \in Slots : d[s[1]][s[2]] = <<>>

\* C3: has_changes() is false iff total_changes() = 0 iff all eight lists
\* are empty; total_changes() is the sum of the eight lengths; the diff of
\* the empty State and the empty Intent has no changes.
C3_HasChangesIffTotalNonZero ==
    /\ pc = "has_changes" =>
        /\ (ret.val = FALSE) <=> (total_changes(diff) = 0)
        /\ (ret.val = FALSE) <=> AllListsEmpty(diff)
    /\ pc = "total_changes" =>
        /\ ret.val = SumOfLengths(diff, Slots)
        /\ (ret.val = 0) <=> AllListsEmpty(diff)
    /\ \A o \in ComputeOrders(DefaultState, DefaultIntent) :
        ~has_changes(compute(DefaultState, DefaultIntent, o))

C3_Witness ==
    /\ pc = "has_changes"
    /\ ret = Ok(TRUE)
    /\ diff.mas_apps.removed # <<>>
    /\ total_changes(diff) = 1

\* The plain text of one entry line.
EntryLine(letter, name) == <<"[", letter, "]", " ">> \o name

CategoryLines(header, list, letter) ==
    IF list = <<>> THEN <<>>
    ELSE <<header>> \o [i \in 1..Len(list) |-> EntryLine(letter, list[i])]

\* The categories of one block in the order taps, formulae, casks, app store.
BlockLines(d, f, letter) ==
    CategoryLines(TxtTaps, d.taps[f], letter)
    \o CategoryLines(TxtFormulae, d.brews[f], letter)
    \o CategoryLines(TxtCasks, d.casks[f], letter)
    \o CategoryLines(TxtAppStore, d.mas_apps[f], letter)

IsPrefix(a, b) == Len(a) <= Len(b) /\ SubSeq(b, 1, Len(a)) = a

\* What was written is the expected text, or, when the writer failed, a
\* beginning of it.
WroteExactly(expected) ==
    /\ IsPrefix(StripLines(out), expected)
    /\ ret.kind = "Ok" => StripLines(out) = expected

\* The block format as C8 words it: an ADDED block in any case.
BlocksAsClaimed(d) ==
    <<TxtADDED>> \o BlockLines(d, "added", "A")
    \o (IF BlockLines(d, "removed", "R") # <<>>
        THEN <<TxtBlank, TxtREMOVED>> \o BlockLines(d, "removed", "R")
        ELSE <<>>)

\* C8 as stated: every report with a change is written as an ADDED block,
\* then, if removals exist, a blank line and a REMOVED block.
C8_AsStated ==
    (pc = "write_diff" /\ ~AllListsEmpty(diff)) => WroteExactly(BlocksAsClaimed(diff))

\* The block format of the code: each block only when it has entries, the
\* separator only between two blocks.
BlocksAsWritten(d) ==
    LET a == BlockLines(d, "added", "A")
        r == BlockLines(d, "removed", "R")
    IN  (IF a # <<>> THEN <<TxtADDED>> \o a ELSE <<>>)
        \o (IF a # <<>> /\ r # <<>> THEN <<TxtBlank>> ELSE <<>>)
        \o (IF r # <<>> THEN <<TxtREMOVED>> \o r ELSE <<>>)

\* C8 (amended): for a report with a change write_diff writes the ADDED
\* block only if an addition exists, the REMOVED block only if a removal
\* exists, and the blank separator only if both exist; in each block the
\* categories come in the order taps, formulae, casks, app store, each
\* non-empty one as its sub-header and one "[A] name" / "[R] name" line per
\* entry in the list's order.
C8_BlocksOnlyWhenNonEmpty ==
    (pc = "write_diff" /\ ~AllListsEmpty(diff)) => WroteExactly(BlocksAsWritten(diff))

C8_Witness ==
    /\ pc = "write_diff"
    /\ ret.kind = "Ok"
    /\ Len(diff.taps.added) = 2
    /\ diff.brews.added # <<>>
    /\ diff.mas_apps.removed # <<>>

C8_WitnessRemovalsOnly ==
    /\ pc = "write_diff"
    /\ ret.kind = "Ok"
    /\ BlockLines(diff, "added", "A") = <<>>
    /\ diff.casks.removed # <<>>

\* C9: for a report without changes write_diff writes nothing and returns
\* line count 0.
C9_NoChangesWritesNothing ==
    (pc = "write_diff" /\ AllListsEmpty(diff)) => (out = <<>> /\ ret = Ok(0))

C9_Witness == pc = "write_diff" /\ AllListsEmpty(diff) /\ env.sink = -1

\* C10: with a writer that accepts every write, write_diff returns the
\* number of lines it wrote, and write_diff_with_header writes the two
\* header lines and a blank line first and returns that number plus 3.
C10_ReturnsLinesWritten ==
    env.sink = -1 =>
        /\ pc = "write_diff" => ret = Ok(Len(out))
        /\ pc = "write_diff_with_header" =>
            /\ ret = Ok(Len(out))
            /\ ret.val = write_diff(<<>>, diff, -1).ret.val + 3
            /\ SubSeq(out, 1, 3) = << <<"<", "<", "<", " ">> \o ProfileOld,
                                      <<">", ">", ">", " ">> \o ProfileNew,
                                      TxtBlank >>
            /\ SubSeq(out, 4, Len(out)) = write_diff(<<>>, diff, -1).out
            /\ AllListsEmpty(diff) => ret = Ok(3)

C10_Witness ==
    /\ pc = "write_diff_with_header"
    /\ env.sink = -1
    /\ diff.brews.added # <<>>
    /\ diff.brews.removed # <<>>
    /\ ret.val = 10

-----------------------------------------------------------------------------
(* Properties of detect() (SpecDetect).                                     *)

Procs == env.sys.procs
Ran(c) == \E i \in 1..Len(log) : log[i].op = "spawn" /\ log[i].cmd = c
BrewPresent == BrewOpt \in env.sys.brew \/ BrewUsr \in env.sys.brew

FailedToSpawn(c) == ~Procs[c].spawn
ExitedNonZero(c) == Procs[c].spawn /\ ~Procs[c].success
\* A zero exit whose stdout is not valid UTF-8. The stdout of `which mas`
\* is never decoded: that process only tells whether the helper exists.
OutputNotText(c) ==
    Procs[c].spawn /\ Procs[c].success /\ ~Procs[c].utf8 /\ c # CmdWhichMas

Fatal(c) == Ran(c) /\ (FailedToSpawn(c) \/ OutputNotText(c))

\* What each sub-query yields by itself from the processes' outputs.
ExpectedBrews ==
    IF \/ ExitedNonZero(CmdLeaves)
       \/ lines(Procs[CmdLeaves].stdout) = <<>>
       \/ ExitedNonZero(CmdListVersions)
    THEN <<>>
    ELSE InsertVersionLines(<<>>, lines(Procs[CmdListVersions].stdout))

ExpectedCasks ==
    IF ExitedNonZero(CmdListCask) THEN <<>>
    ELSE InsertVersionLines(<<>>, lines(Procs[CmdListCask].stdout))

ExpectedTaps ==
    IF ExitedNonZero(CmdTap) THEN {} ELSE Range(lines(Procs[CmdTap].stdout))

ExpectedMasApps ==
    IF ExitedNonZero(CmdWhichMas) \/ ExitedNonZero(CmdMasList) THEN {}
    ELSE InsertMasLines([panicked |-> FALSE, apps |-> {}],
                        lines(Procs[CmdMasList].stdout)).apps

LastRun == log[Len(log)].cmd

\* C4: detect() returns an error iff a process it ran could not be spawned
\* (CommandFailed) or exited zero with output that is not valid text
\* (Utf8), and that process is the last one it ran; a process that exits
\* non-zero never is the cause of an error, and when detect() returns a
\* State the sub-query of such a process is empty and every sub-query has
\* the result its own processes give.
C4_FailsIffSpawnOrTextError ==
    pc = "detected" =>
        /\ (ret.kind = "Err") <=> (\E c \in Commands : Fatal(c))
        /\ ret.kind = "Err" =>
            /\ Fatal(LastRun)
            /\ \A i \in 1..(Len(log) - 1) : ~Fatal(log[i].cmd)
            /\ ret.val.error =
                 IF FailedToSpawn(LastRun) THEN "CommandFailed" ELSE "Utf8"
        /\ \A c \in Commands :
            (Ran(c) /\ ExitedNonZero(c)) => ~(ret.kind = "Err" /\ LastRun = c)
        /\ (ret.kind = "Ok" /\ BrewPresent) =>
            /\ (ExitedNonZero(CmdLeaves) \/ ExitedNonZero(CmdListVersions))
                  => ret.val.installed_brews = <<>>
            /\ ExitedNonZero(CmdListCask) => ret.val.installed_casks = <<>>
            /\ ExitedNonZero(CmdTap) => ret.val.installed_taps = {}
            /\ ExitedNonZero(CmdMasList) => ret.val.installed_mas_apps = {}
            /\ ret.val.installed_brews = ExpectedBrews
            /\ ret.val.installed_casks = ExpectedCasks
            /\ ret.val.installed_taps = ExpectedTaps
            /\ ret.val.installed_mas_apps = ExpectedMasApps

C4_Witness ==
    /\ pc = "detected"
    /\ ret.kind = "Ok"
    /\ Ran(CmdTap) /\ ExitedNonZero(CmdTap) /\ ~Procs[CmdTap].utf8
    /\ cur.installed_taps = {}
    /\ DOMAIN cur.installed_brews = {<<"a">>, <<"b">>}
    /\ cur.installed_casks # <<>>
    /\ cur.installed_mas_apps # {}

C4_WitnessError ==
    /\ pc = "detected"
    /\ ret.kind = "Err"
    /\ ret.val.error = "Utf8"
    /\ LastRun = CmdMasList
    /\ ExitedNonZero(CmdLeaves)

\* C5: without brew at either install path detect() returns the default
\* State and spawns no process; no error other than CommandFailed and Utf8
\* is ever returned; with brew present and `which mas` exiting non-zero
\* `mas list` is not run, the absence is no error (detect() returns a State
\* unless a brew query before it failed), the app-store set is empty and
\* formulae, casks and taps are what their own queries give.
C5_AbsentToolsAreNotErrors ==
    pc = "detected" =>
        /\ ~BrewPresent => (ret = Ok(DefaultState) /\ log = <<>>)
        /\ ret.kind = "Err" => ret.val.error \in {"CommandFailed", "Utf8"}
        /\ (BrewPresent /\ ExitedNonZero(CmdWhichMas)) =>
            /\ ~Ran(CmdMasList)
            /\ ret.kind # "Panic"
            /\ ret.kind = "Err" =>
                   LastRun \in {CmdLeaves, CmdListVersions, CmdListCask, CmdTap}
            /\ Ran(CmdWhichMas) => ret.kind = "Ok"
            /\ ret.kind = "Ok" =>
                /\ ret.val.installed_mas_apps = {}
                /\ ret.val.installed_brews = ExpectedBrews
                /\ ret.val.installed_casks = ExpectedCasks
                /\ ret.val.installed_taps = ExpectedTaps

C5_Witness ==
    /\ pc = "detected"
    /\ env.sys.brew = {BrewUsr}
    /\ Ran(CmdWhichMas) /\ ExitedNonZero(CmdWhichMas)
    /\ ret.kind = "Ok"
    /\ cur.installed_brews # <<>>
    /\ cur.installed_taps # {}
    /\ cur.installed_mas_apps = {}

C5_WitnessNoBrew ==
    /\ pc = "detected"
    /\ env.sys.brew = {}
    /\ FailedToSpawn(CmdLeaves)
    /\ ret = Ok(DefaultState)

-----------------------------------------------------------------------------
(* Properties of extract() (SpecExtract).                                   *)

IsErr(e) == ret.kind = "Err" /\ ret.val.error = e

ActivatePath == ProfileNew \o <<"/">> \o TxtActivate

\* The script holds  brew bundle --file='<path>'  with a non-empty path
\* that ends in Brewfile.
HasBundleInvocation(s) ==
    \E i \in 1..Len(s), j \in 1..Len(s) :
        /\ i + 2 < j
        /\ s[i] = "P" /\ s[i + 1] = "Q" /\ s[j] = "Q"
        /\ \A k \in (i + 2)..(j - 1) : s[k] # "Q"
        /\ s[j - 1] = "B"

\* The manifest was opened for reading.
ManifestRead ==
    \E i \in 1..Len(log) : log[i].op = "read" /\ log[i].path # ActivatePath

\* The manifest was looked at in any way.
ManifestTouched ==
    \E i \in 1..Len(log) :
        log[i].op \in {"exists", "read"} /\ log[i].path # ActivatePath

\* C6: extract checks in a fixed order and returns the first failing
\* check's error: (1) no `activate` file -> NoActivationScript carrying
\* <profile>/activate; (2) a script without a brew-bundle invocation with a
\* single-quoted path ending in Brewfile -> BrewfileNotFound; (3) the
\* referenced manifest does not exist -> ParseError naming that path. The
\* manifest is not read when (1) or (2) fails, and an Intent is returned
\* only when all three checks pass.
C6_FirstFailingCheckDecides ==
    pc = "extracted" =>
        LET fs == env.fs
            captured == brewfile_captures(fs.script)
        IN  /\ fs.activate = "absent" =>
                /\ IsErr("NoActivationScript")
                /\ ret.val.detail = ActivatePath
                /\ log = <<FsOp("exists", ActivatePath)>>
            /\ (fs.activate = "file" /\ ~HasBundleInvocation(fs.script)) =>
                /\ IsErr("BrewfileNotFound")
                /\ ~ManifestTouched
            /\ (fs.activate = "file" /\ captured.some
                    /\ captured.value \notin fs.files) =>
                /\ IsErr("ParseError")
                /\ ret.val.detail = captured.value
                /\ ~ManifestRead
            /\ (IsErr("NoActivationScript") \/ IsErr("BrewfileNotFound")) =>
                ~ManifestTouched
            /\ IsErr("NoActivationScript") => fs.activate = "absent"
            /\ IsErr("ParseError") => fs.activate = "file"
            /\ ret.kind = "Ok" =>
                /\ fs.activate = "file"
                /\ HasBundleInvocation(fs.script)
                /\ captured.some /\ captured.value \in fs.files
                /\ ManifestRead
                /\ intent = ret.val

C6_Witness ==
    /\ pc = "extracted"
    /\ IsErr("ParseError")
    /\ ret.val.detail = <<"B", "B">>
    /\ env.fs.files = {<<"x", "B">>}
    /\ env.fs.manifest.readable

C6_WitnessIntent ==
    /\ pc = "extracted"
    /\ ret.kind = "Ok"
    /\ intent.brews = {<<"a">>, <<"a", "b">>}
    /\ intent.mas_apps # {}

-----------------------------------------------------------------------------
(* Properties of the pipeline (Spec).                                       *)

StageRan(name) ==
    \E i \in 1..Len(log) : log[i].op = "stage" /\ log[i].name = name

StagePositions(name) ==
    {i \in 1..Len(log) : log[i].op = "stage" /\ log[i].name = name}

\* Each stage ran at most once, and a stage ran only after the one before.
StagesInOrder ==
    /\ \A n \in {"detect", "extract", "compute", "render"} :
           Cardinality(StagePositions(n)) <= 1
    /\ \A p \in {<<"detect", "extract">>, <<"extract", "compute">>,
                 <<"compute", "render">>} :
           \A j \in StagePositions(p[2]) :
               \E i \in StagePositions(p[1]) : i < j

DetectOutcome == detect(env.sys).ret
ExtractOutcome == extract(env.fs, ProfileNew).ret

\* C7 as stated: the steps run in the order detect, extract, compute
\* (, render); after a failed detect nothing else runs; after a failed
\* extract no diff is computed and nothing is written; and every
\* invocation hands its caller exactly one result, the DiffReport / line
\* count or the first error met, unchanged.
C7_AsStated ==
    /\ StagesInOrder
    /\ (StageRan("detect") /\ DetectOutcome.kind # "Ok") =>
        /\ ~StageRan("extract") /\ ~StageRan("compute") /\ ~StageRan("render")
        /\ diff = DefaultDiffData /\ out = <<>>
    /\ (StageRan("extract") /\ ExtractOutcome.kind # "Ok") =>
        /\ ~StageRan("compute") /\ ~StageRan("render")
        /\ diff = DefaultDiffData /\ out = <<>>
    /\ pc = "done" =>
        /\ ret.kind \in {"Ok", "Err"}
        /\ ret.kind = "Err" =>
            IF DetectOutcome.kind # "Ok" THEN ret.val.error = DetectOutcome.val.error
            ELSE IF ExtractOutcome.kind # "Ok"
                 THEN ret.val.error = ExtractOutcome.val.error
                      /\ ret.val.detail = ExtractOutcome.val.detail
            ELSE ret.val.error = "Io" /\ StageRan("render")
        /\ ret.kind = "Ok" =>
            /\ DetectOutcome.kind = "Ok" /\ ExtractOutcome.kind = "Ok"
            /\ IF env.entry = "spawn_homebrew_diff"
               THEN ret.val = diff /\ out = <<>>
               ELSE ret.val = Len(out)

\* The invocation that ends without a result.
C7_Abort ==
    /\ pc = "done"
    /\ ret.kind = "Panic"
    /\ env.entry = "write_homebrew_diffln"

-----------------------------------------------------------------------------
(* Properties of the summary (SpecStats).                                   *)

\* The lines write_stats added to the writer, escape sequences removed.
StatsLines == StripLines(SubSeq(out, log[Len(log)].at + 1, Len(out)))

CountedAdded == Len(diff.brews.added) + Len(diff.casks.added) + Len(diff.taps.added)
CountedRemoved ==
    Len(diff.brews.removed) + Len(diff.casks.removed) + Len(diff.taps.removed)

\* The numerals of the counts a bounded report can have.
Numeral(n) ==
    <<<<"0">>, <<"1">>, <<"2">>, <<"3">>, <<"4">>, <<"5">>, <<"6">>, <<"7">>,
      <<"8">>, <<"9">>>>[n + 1]

SummaryText ==
    <<"H", "O", "M", "E", "B", "R", "E", "W", ":", " ">> \o Numeral(CountedAdded)
    \o <<" ", "a", "d", "d", "e", "d", ",", " ">> \o Numeral(CountedRemoved)
    \o <<" ", "r", "e", "m", "o", "v", "e", "d">>

\* C11 as stated: for every report, what write_stats writes is the single
\* line 'HOMEBREW: <a> added, <r> removed', a and r counting formulae, casks
\* and taps but not app-store apps.
C11_AsStated ==
    (pc = "write_stats" /\ env.sink = -1) =>
        /\ ret.kind = "Ok"
        /\ Len(StatsLines) = 1
        /\ StatsLines[1] = SummaryText

\* C11, amended: for a report with at least one change (app-store changes
\* included) write_stats writes a blank line and then the line
\* 'HOMEBREW: <a> added, <r> removed', a and r counting formulae, casks and
\* taps but not app-store apps; for a report without changes it writes
\* nothing; either way it returns Ok when the writer accepts the lines, and
\* what the writer held before is left as it was.
C11_SummaryAfterBlankLineWhenChanged ==
    pc = "write_stats" =>
        LET before == log[Len(log)].at
            wanted == IF AllListsEmpty(diff) THEN <<>> ELSE <<<<>>, SummaryText>>
        IN  /\ before <= Len(out)
            /\ IsPrefix(StatsLines, wanted)
            /\ (ret.kind = "Ok") <=> (StatsLines = wanted)
            /\ (ret.kind = "Err") => (env.sink # -1 /\ ret.val.error = "Io")
            /\ (env.sink = -1) => ret.kind = "Ok"
            /\ ret.kind \in {"Ok", "Err"}

\* The summary written after the block report of a report that has
\* app-store changes next to a formula added and a cask removed.
C11_Witness ==
    /\ pc = "write_stats"
    /\ env.sink = -1
    /\ log[Len(log)].after = "write_diff"
    /\ log[Len(log)].at > 0
    /\ diff.mas_apps.added # <<>>
    /\ diff.brews.added # <<>>
    /\ diff.casks.removed # <<>>
    /\ StatsLines = <<<<>>, SummaryText>>
    /\ CountedAdded = 1 /\ CountedRemoved = 1

-----------------------------------------------------------------------------
(* Properties of the parsers (SpecParse).                                   *)

ManifestLines == lines(env.fs.manifest.text)

QuotePositions(l) == {i \in 1..Len(l) : l[i] = "\""}

Least(S) == CHOOSE i \in S : \A j \in S : i <= j

\* The first quoted substring of a line with a closing quote.
FirstQuoted(l) ==
    LET open  == Least(QuotePositions(l))
        close == Least(QuotePositions(l) \ {open})
    IN  SubSeq(l, open + 1, close - 1)

HasIdMarker(l) == FindSubFrom(l, <<"i", "d", ":">>, 1) # 0

\* The single token that follows the id: marker, empty when none does.
IdToken(l) ==
    LET i    == FindSubFrom(l, <<"i", "d", ":">>, 1)
        toks == split_whitespace(SubSeq(l, i + 3, Len(l)))
    IN  IF toks = <<>> THEN <<>> ELSE toks[1]

\* The app-store lines that have a closing quote and an id: marker.
CompleteMasLines ==
    {i \in 1..Len(ManifestLines) :
        /\ starts_with(trim(ManifestLines[i]), <<"m", "a", "s", " ", "\"">>)
        /\ Cardinality(QuotePositions(ManifestLines[i])) >= 2
        /\ HasIdMarker(ManifestLines[i])}

AppEntry(name, id) == name \o <<" ", "(">> \o id \o <<")">>

\* C12 as stated: the app-store set of the parsed manifest holds, for each
\* `mas "` line with a closing quote and an id: marker, the entry
\* '<name> (<id>)' made of the first quoted substring and the single token
\* after the marker, and nothing else.
C12_AsStated ==
    pc = "parse_brewfile" =>
        /\ ret.kind = "Ok"
        /\ ret.val.mas_apps =
               {AppEntry(FirstQuoted(ManifestLines[i]), IdToken(ManifestLines[i])) :
                    i \in CompleteMasLines}

\* parse_brewfile on a manifest made of the given lines.
ParsedLines(ls) == parse_brewfile(ParseFs(join(ls, <<NL>>)), <<"x", "B">>).ret

IsDirective(l) ==
    \E d \in {<<"b", "r", "e", "w">>, <<"c", "a", "s", "k">>, <<"t", "a", "p">>,
              <<"m", "a", "s">>} :
        starts_with(trim(l), d \o <<" ", "\"">>)

\* The directive lines of the manifest, each once, in byte order.
DistinctDirectives ==
    Sort(CHOOSE o \in Orders({ManifestLines[i] : i \in
            {k \in 1..Len(ManifestLines) : IsDirective(ManifestLines[k])}}) : TRUE)

\* C13: parsing a manifest never fails on its content, every permutation of
\* its lines parses to the same Intent, and so does the manifest reduced to
\* its directive lines with every repeated line kept once: blank lines,
\* comments and other lines contribute nothing, repeats contribute once.
C13_ParseIgnoresOrderRepeatsAndOtherLines ==
    pc = "parse_brewfile" =>
        /\ ret.kind = "Ok"
        /\ \A p \in Orders(1..Len(ManifestLines)) :
               ParsedLines([i \in 1..Len(ManifestLines) |-> ManifestLines[p[i]]]) = ret
        /\ ParsedLines(DistinctDirectives) = ret
        /\ (\A i \in 1..Len(ManifestLines) : ~IsDirective(ManifestLines[i]))
               => ret.val = DefaultIntent

\* Two different formulae declared on two lines.
C13_Witness ==
    /\ pc = "parse_brewfile"
    /\ Len(ManifestLines) = 2
    /\ ManifestLines[1] # ManifestLines[2]
    /\ IsDirective(ManifestLines[1]) /\ IsDirective(ManifestLines[2])
    /\ ret.kind = "Ok"
    /\ ret.val.brews = {<<"a">>, <<"a", "b">>}

\* The same cask declared twice.
C13_WitnessRepeat ==
    /\ pc = "parse_brewfile"
    /\ Len(ManifestLines) = 2
    /\ ManifestLines[1] = ManifestLines[2]
    /\ ret.kind = "Ok"
    /\ ret.val = [DefaultIntent EXCEPT !.casks = {<<"b">>}]

\* A manifest of a comment and a line that is no directive.
C13_WitnessNothing ==
    /\ pc = "parse_brewfile"
    /\ {ManifestLines[i] : i \in 1..Len(ManifestLines)} =
           {<<"#", " ", "c">>, <<"f", "o", "o">>}
    /\ ret = Ok(DefaultIntent)

\* The lines of the output of `brew list --cask --versions`.
VersionLines == lines(env.sys.procs[CmdListCask].stdout)

Blank(c) == c \in {" ", "\t", "\n"}

\* The whitespace-delimited tokens of a line: its maximal runs of
\* characters that are not whitespace, from left to right.
TokenSpans(l) ==
    {sp \in (1..Len(l)) \X (1..Len(l)) :
        /\ sp[1] <= sp[2]
        /\ \A k \in sp[1]..sp[2] : ~Blank(l[k])
        /\ sp[1] = 1 \/ Blank(l[sp[1] - 1])
        /\ sp[2] = Len(l) \/ Blank(l[sp[2] + 1])}

TokensOf(l) ==
    [i \in 1..Cardinality(TokenSpans(l)) |->
        LET sp == CHOOSE x \in TokenSpans(l) :
                      Cardinality({y \in TokenSpans(l) : y[1] < x[1]}) = i - 1
        IN  SubSeq(l, sp[1], sp[2])]

RECURSIVE SingleSpaced(_)
SingleSpaced(ws) ==
    IF Len(ws) = 0 THEN <<>>
    ELSE IF Len(ws) = 1 THEN ws[1]
    ELSE ws[1] \o <<" ">> \o SingleSpaced(Tail(ws))

\* The version a line states: its tokens after the name, or the sentinel.
VersionOn(l) ==
    IF Len(TokensOf(l)) > 1 THEN SingleSpaced(Tail(TokensOf(l)))
    ELSE <<"u", "n", "k", "n", "o", "w", "n">>

\* The lines that name the package n.
LinesNaming(n) ==
    {i \in 1..Len(VersionLines) :
        Len(TokensOf(VersionLines[i])) > 0 /\ TokensOf(VersionLines[i])[1] = n}

Greatest(S) == CHOOSE i \in S : \A j \in S : j <= i

\* C15: parse_list_versions_output returns a map whose keys are the first
\* tokens of the non-blank lines, each key holding the remaining tokens of
\* the last line that names it, joined by single spaces, or 'unknown' when
\* that line has only the name; blank lines add nothing and an empty output
\* gives the empty map.
C15_OneEntryPerNameLastLineWins ==
    pc = "parse_list_versions_output" =>
        /\ ret.kind = "Ok"
        /\ DOMAIN ret.val =
               {TokensOf(VersionLines[i])[1] :
                    i \in {k \in 1..Len(VersionLines) :
                              Len(TokensOf(VersionLines[k])) > 0}}
        /\ \A n \in DOMAIN ret.val :
               ret.val[n] = VersionOn(VersionLines[Greatest(LinesNaming(n))])
        /\ (\A i \in 1..Len(VersionLines) : Len(TokensOf(VersionLines[i])) = 0)
               => DOMAIN ret.val = {}

\* The package a is listed with version b and then again without one.
C15_Witness ==
    /\ pc = "parse_list_versions_output"
    /\ env.sys.procs[CmdListCask].stdout = <<"a", " ", "b", "\n", "a">>
    /\ ret.kind = "Ok"
    /\ DOMAIN ret.val = {<<"a">>}
    /\ ret.val[<<"a">>] = <<"u", "n", "k", "n", "o", "w", "n">>

\* A package with two coexisting versions.
C15_WitnessTwoVersions ==
    /\ pc = "parse_list_versions_output"
    /\ env.sys.procs[CmdListCask].stdout = <<"a", " ", "b", " ", "a">>
    /\ ret.kind = "Ok"
    /\ DOMAIN ret.val = {<<"a">>}
    /\ ret.val[<<"a">>] = <<"b", " ", "a">>

\* The lines of the output of `mas list`, and those with two tokens or more.
MasLines == lines(env.sys.procs[CmdMasList].stdout)

AppLines == {i \in 1..Len(MasLines) : Len(TokensOf(MasLines[i])) >= 2}

EndsWith(s, suffix) ==
    Len(suffix) <= Len(s) /\ SubSeq(s, Len(s) - Len(suffix) + 1, Len(s)) = suffix

\* C16 as stated: whatever valid text `mas list` prints, get_mas_apps
\* returns a set, in which every line of two tokens or more has its one
\* entry (ending in the line's id in parentheses) and which holds nothing
\* but such entries.
C16_AsStated ==
    pc = "get_mas_apps" =>
        /\ ret.kind = "Ok"
        /\ \A i \in AppLines :
               \E e \in ret.val :
                   EndsWith(e, <<" ", "(">> \o TokensOf(MasLines[i])[1] \o <<")">>)
        /\ \A e \in ret.val :
               \E i \in AppLines :
                   EndsWith(e, <<" ", "(">> \o TokensOf(MasLines[i])[1] \o <<")">>)
        /\ Cardinality(ret.val) <= Cardinality(AppLines)

\* get_mas_apps aborts on a line whose first token begins with '('.
C16_Abort ==
    /\ pc = "get_mas_apps"
    /\ env.sys.procs[CmdMasList].stdout = <<"(", "1", " ", "a">>
    /\ ret.kind = "Panic"

-----------------------------------------------------------------------------
(* Properties of the pipeline on app-store apps (SpecApps).                 *)

InstalledApps ==
    {a \in Apps : MasRow(a) \in Range(lines(env.sys.procs[CmdMasList].stdout))}

DeclaredApps ==
    {a \in Apps : MasDirective(a) \in Range(lines(env.fs.manifest.text))}

\* C14 as stated: the state holds '<name> (<id>)' for every installed app,
\* and an app that is installed and declared with the same id and name is
\* neither in app-store added nor in app-store removed.
C14_AsStated ==
    pc = "done" =>
        /\ cur.installed_mas_apps = {AppEntry(a.name, a.id) : a \in InstalledApps}
        /\ \A a \in InstalledApps \cap DeclaredApps :
               /\ AppEntry(a.name, a.id) \notin Range(diff.mas_apps.added)
               /\ AppEntry(a.name, a.id) \notin Range(diff.mas_apps.removed)

\* The app named 'Fluid: a' is installed and declared with id 1, and is
\* reported both as added and as removed.
C14_Mismatch ==
    /\ pc = "done"
    /\ InstalledApps = {[id |-> <<"1">>, name |-> <<"F", "l", "u", "i", "d", ":", " ", "a">>]}
    /\ DeclaredApps = InstalledApps
    /\ diff.mas_apps.removed = <<<<"F", "l", "u", "i", "d", ":", " ", "a", " ", "(", "1", ")">>>>
    /\ diff.mas_apps.added # <<>>

=============================================================================
